---- MODULE Spec2Model ----
(***************************************************************************)
(* Fortune Teller data-access layer: the Astro actions of                  *)
(* src/src/actions/index.ts over the three tables of src/db/tables.ts.     *)
(* Every handler is a pure operator from (caller, input, store) to a       *)
(* response and a new store; every action applies one handler.             *)
(***************************************************************************)
EXTENDS FiniteSets, Integers, Sequences, TLC

VARIABLES
  templates,  \* table FortuneTemplates, rows in insertion order
  sessions,   \* table FortuneSessions
  draws,      \* table FortuneDraws
  clock,      \* new Date(): logical time, the number of writes so far
  last,       \* the handler and result code of the last response
  addLog,     \* history: <<draw id, caller>> of every inserted draw
  readLog,    \* history: <<session id, caller>> of every session read
  pending     \* requests in flight between two store calls (SpecConc)

vars == <<templates, sessions, draws, clock, last, addLog, readLog, pending>>

(* ------------------------------ bounds -------------------------------- *)

\* Successful mutating requests in one behaviour of Spec.
MaxWrites == 2
\* Successful mutating requests in one behaviour of SpecTemplates.
MaxTemplateWrites == 3
\* Successful mutating requests in one behaviour of SpecConc.
MaxConcWrites == 4

(* --------------------------- value universe --------------------------- *)

\* SQL NULL in a text column, and "no authenticated user" in the context.
NULL == "NULL"

Users == {"u1", "u2"}
Callers == Users \cup {NULL}

\* Strings a z.string() accepts; the empty string is one of them.
Str == {"", "a"}
BodyStr == {"", "a", "b"}

\* crypto.randomUUID(): the n-th identifier handed out for a table.
TemplateUuids == <<"t1", "t2", "t3", "t4", "t5", "t6">>
SessionUuids == <<"s1", "s2", "s3", "s4", "s5", "s6">>
DrawUuids == <<"d1", "d2", "d3", "d4", "d5", "d6">>

\* An object field that may be left out (undefined in the source).
Opt(name, vals) == {<<>>} \cup {name :> v : v \in vals}
Has(input, f) == f \in DOMAIN input
Get(input, f) == IF f \in DOMAIN input THEN input[f] ELSE NULL
\* JavaScript truthiness of an optional string.
Truthy(input, f) == f \in DOMAIN input /\ input[f] # ""

(* ------------------------------ tables -------------------------------- *)

\* Seeded system rows ("null => system fortune template").
SeedTemplates ==
  << [id |-> "sysA", userId |-> NULL, title |-> "a", body |-> "a",
      category |-> "a", tone |-> NULL, isSystem |-> TRUE, isActive |-> TRUE,
      createdAt |-> 0, updatedAt |-> 0],
     [id |-> "sysB", userId |-> NULL, title |-> NULL, body |-> "b",
      category |-> NULL, tone |-> "a", isSystem |-> TRUE, isActive |-> FALSE,
      createdAt |-> 0, updatedAt |-> 0] >>

Range(s) == {s[i] : i \in DOMAIN s}
UserTemplates == SelectSeq(templates, LAMBDA t : ~t.isSystem)
TemplateIds == {t.id : t \in Range(templates)}
SessionIds == {s.id : s \in Range(sessions)}

(* ------------------------------ astro:db ------------------------------ *)

Absent == [op |-> "undefined"]
eq(col, val) == [op |-> "eq", col |-> col, val |-> val]
or(l, r) == [op |-> "or", l |-> l, r |-> r]
and(l, r) == [op |-> "and", l |-> l, r |-> r]

RECURSIVE Eval(_, _)
Eval(cond, row) ==
  CASE cond.op = "eq" -> row[cond.col] = cond.val
    [] cond.op = "or" -> Eval(cond.l, row) \/ Eval(cond.r, row)
    [] cond.op = "and" -> Eval(cond.l, row) /\ Eval(cond.r, row)

dbSelect(table) == table
dbSelectWhere(table, cond) == SelectSeq(table, LAMBDA row : Eval(cond, row))
dbInsert(table, row) == Append(table, row)
dbUpdate(table, set, cond) ==
  [i \in DOMAIN table |-> IF Eval(cond, table[i]) THEN set @@ table[i] ELSE table[i]]

\* const [row] = await db.select()...: the first row, or undefined.
First(rows) == IF Len(rows) = 0 THEN Absent ELSE rows[1]

(* ------------------------------ helpers ------------------------------- *)

requireUser(caller) == caller # NULL

RECURSIVE Reduce(_, _)
Reduce(conds, acc) ==
  IF Len(conds) = 0 THEN acc
  ELSE Reduce(Tail(conds), IF acc # Absent THEN and(acc, Head(conds)) ELSE Head(conds))

combineConditions(conditions) ==
  Reduce(SelectSeq(conditions, LAMBDA c : c # Absent), Absent)

(* ----------------------------- responses ------------------------------ *)

Response(code, data, T, S, D, reads, writes) ==
  [code |-> code, data |-> data, templates |-> T, sessions |-> S, draws |-> D,
   reads |-> reads, writes |-> writes]
Ok(data, T, S, D, reads, writes) == Response("OK", data, T, S, D, reads, writes)
Fail(code, reads) == Response(code, <<>>, templates, sessions, draws, reads, 0)

(* ------------------------ listFortuneTemplates ------------------------ *)

ListFlagInputs ==
  {<<>>, [includeInactive |-> TRUE], [includeSystem |-> FALSE], [includeMine |-> FALSE],
   [includeSystem |-> FALSE, includeMine |-> FALSE]}

ListFilterInputs ==
  {<<>>, [category |-> ""], [category |-> "a"], [tone |-> ""], [tone |-> "a"],
   [category |-> "a", tone |-> "a"]}

ListInputs == {a @@ b : a \in ListFilterInputs, b \in ListFlagInputs}

CoreListInputs == {<<>>, [category |-> "a", includeInactive |-> TRUE]}

\* The zod defaults of the three flags.
listInputParse(raw) ==
  raw @@ [includeInactive |-> FALSE, includeSystem |-> TRUE, includeMine |-> TRUE]

\* Variant: the owner predicate compares the wrong column.
visibilityConditionMutant(userId, input) ==
  IF input.includeSystem
  THEN IF userId # NULL /\ input.includeMine
       THEN or(eq("isSystem", TRUE), eq("isSystem", FALSE))
       ELSE eq("isSystem", TRUE)
  ELSE eq("userId", userId)
visibilityCondition(userId, input) ==
  IF input.includeSystem
  THEN IF userId # NULL /\ input.includeMine
       THEN or(eq("isSystem", TRUE), eq("userId", userId))
       ELSE eq("isSystem", TRUE)
  ELSE eq("userId", userId)

listConditions(userId, input) ==
  <<visibilityCondition(userId, input)>>
    \o (IF ~input.includeInactive THEN <<eq("isActive", TRUE)>> ELSE <<>>)
    \o (IF Truthy(input, "category") THEN <<eq("category", input.category)>> ELSE <<>>)
    \o (IF Truthy(input, "tone") THEN <<eq("tone", input.tone)>> ELSE <<>>)

listFortuneTemplates(userId, raw) ==
  LET input == listInputParse(raw) IN
  IF ~input.includeSystem /\ (~input.includeMine \/ userId = NULL)
  THEN Ok([items |-> <<>>, total |-> 0], templates, sessions, draws, 0, 0)
  ELSE LET whereClause == combineConditions(listConditions(userId, input))
           items == IF whereClause # Absent
                    THEN dbSelectWhere(templates, whereClause)
                    ELSE dbSelect(templates)
       IN Ok([items |-> items, total |-> Len(items)], templates, sessions, draws, 1, 0)

(* ----------------------- createFortuneTemplate ------------------------ *)

CreateTemplateInputs ==
  {<<>>, [body |-> ""], [title |-> "a", body |-> "a", category |-> ""]}

CoreCreateTemplateInputs == {<<>>, [body |-> "a"]}

createTemplateInputValid(input) == Has(input, "body") /\ input.body # ""

createFortuneTemplate(caller, input, now, uuid) ==
  IF ~createTemplateInputValid(input) THEN Fail("VALIDATION", 0)
  ELSE IF ~requireUser(caller) THEN Fail("UNAUTHORIZED", 0)
  ELSE LET template == [id |-> uuid, userId |-> caller, title |-> Get(input, "title"),
                        body |-> input.body, category |-> Get(input, "category"),
                        tone |-> Get(input, "tone"), isSystem |-> FALSE,
                        isActive |-> TRUE, createdAt |-> now, updatedAt |-> now]
       IN Ok([template |-> template], dbInsert(templates, template), sessions, draws, 0, 1)

(* ----------------------- updateFortuneTemplate ------------------------ *)

\* Ids a caller may send: every stored id, an unknown one, the empty string.
TemplateIdInputs == TemplateIds \cup {"zz", ""}

UpdateFields == {"title", "body", "category", "tone", "isActive"}

\* The fields of an update besides the id.
TemplatePatches ==
  {<<>>, [body |-> ""], [title |-> ""], [body |-> "b"], [category |-> "a", tone |-> ""],
   [isActive |-> FALSE], [isActive |-> TRUE]}

CoreTemplatePatches == {<<>>, [body |-> ""], [isActive |-> TRUE]}

UpdateInputsOf(patches) ==
  {i @@ patch : i \in {"id" :> x : x \in TemplateIdInputs}, patch \in patches}

UpdateTemplateInputs == UpdateInputsOf(TemplatePatches)

\* Variant: the refinement "at least one field" is missing.
updateTemplateInputValidMutant(input) ==
  /\ input.id # ""
  /\ (Has(input, "body") => input.body # "")
updateTemplateInputValid(input) ==
  /\ input.id # ""
  /\ (Has(input, "body") => input.body # "")
  /\ \E f \in UpdateFields : Has(input, f)

\* Variant: the ownership check is missing.
mayUpdateTemplateMutant(existing, caller) ==
  IF existing.isSystem THEN "FORBIDDEN" ELSE ""
\* Empty when the caller may edit the row, else the code of the failure.
mayUpdateTemplate(existing, caller) ==
  IF existing.userId # caller THEN "FORBIDDEN"
  ELSE IF existing.isSystem THEN "FORBIDDEN"
  ELSE ""

\* Variant: text fields are tested for truthiness instead of !== undefined.
templateUpdatesMutant(input, now) ==
  ("updatedAt" :> now)
    @@ (IF Truthy(input, "title") THEN "title" :> input.title ELSE <<>>)
    @@ (IF Truthy(input, "body") THEN "body" :> input.body ELSE <<>>)
    @@ (IF Truthy(input, "category") THEN "category" :> input.category ELSE <<>>)
    @@ (IF Truthy(input, "tone") THEN "tone" :> input.tone ELSE <<>>)
    @@ (IF Has(input, "isActive") THEN "isActive" :> input.isActive ELSE <<>>)
templateUpdates(input, now) ==
  ("updatedAt" :> now)
    @@ (IF Has(input, "title") THEN "title" :> input.title ELSE <<>>)
    @@ (IF Has(input, "body") THEN "body" :> input.body ELSE <<>>)
    @@ (IF Has(input, "category") THEN "category" :> input.category ELSE <<>>)
    @@ (IF Has(input, "tone") THEN "tone" :> input.tone ELSE <<>>)
    @@ (IF Has(input, "isActive") THEN "isActive" :> input.isActive ELSE <<>>)

updateFortuneTemplate(caller, input, now) ==
  IF ~updateTemplateInputValid(input) THEN Fail("VALIDATION", 0)
  ELSE IF ~requireUser(caller) THEN Fail("UNAUTHORIZED", 0)
  ELSE LET existing == First(dbSelectWhere(templates, eq("id", input.id))) IN
       IF existing = Absent THEN Fail("NOT_FOUND", 1)
       ELSE IF mayUpdateTemplate(existing, caller) # ""
       THEN Fail(mayUpdateTemplate(existing, caller), 1)
       ELSE LET T == dbUpdate(templates, templateUpdates(input, now), eq("id", input.id))
                template == First(dbSelectWhere(T, eq("id", input.id)))
            IN Ok([template |-> template], T, sessions, draws, 2, 1)

(* ----------------------- archiveFortuneTemplate ----------------------- *)

ArchiveTemplateInputs == {"id" :> x : x \in TemplateIdInputs}

mayArchiveTemplate(existing, caller) ==
  IF existing.userId # caller THEN "FORBIDDEN" ELSE ""

\* Variant: the archive leaves isActive alone.
archiveUpdatesMutant(now) == [updatedAt |-> now]
archiveUpdates(now) == [isActive |-> FALSE, updatedAt |-> now]

archiveFortuneTemplate(caller, input, now) ==
  IF input.id = "" THEN Fail("VALIDATION", 0)
  ELSE IF ~requireUser(caller) THEN Fail("UNAUTHORIZED", 0)
  ELSE LET existing == First(dbSelectWhere(templates, eq("id", input.id))) IN
       IF existing = Absent THEN Fail("NOT_FOUND", 1)
       ELSE IF mayArchiveTemplate(existing, caller) # ""
       THEN Fail(mayArchiveTemplate(existing, caller), 1)
       ELSE Ok(<<>>, dbUpdate(templates, archiveUpdates(now), eq("id", input.id)),
               sessions, draws, 1, 1)

(* ------------------------ createFortuneSession ------------------------ *)

CreateSessionInputs ==
  {<<>>, [question |-> "a", spreadType |-> "a", notes |-> ""]}

CoreCreateSessionInputs == {[question |-> "a"]}

createFortuneSession(caller, input, now, uuid) ==
  IF ~requireUser(caller) THEN Fail("UNAUTHORIZED", 0)
  ELSE LET session == [id |-> uuid, userId |-> caller, question |-> Get(input, "question"),
                       spreadType |-> Get(input, "spreadType"),
                       notes |-> Get(input, "notes"), createdAt |-> now]
       IN Ok([session |-> session], templates, dbInsert(sessions, session), draws, 0, 1)

(* ------------------------ listMyFortuneSessions ----------------------- *)

DefaultPage == 1
DefaultPageSize == 20
MaxPageSize == 100

Min(a, b) == IF a < b THEN a ELSE b
Max(a, b) == IF a > b THEN a ELSE b

ListSessionsInputs ==
  {<<>>, [page |-> 0], [pageSize |-> 0], [pageSize |-> MaxPageSize + 1],
   [page |-> 1, pageSize |-> 1], [page |-> 2, pageSize |-> 1]}

listSessionsInputParse(raw) == raw @@ [page |-> DefaultPage, pageSize |-> DefaultPageSize]

listSessionsInputValid(input) ==
  input.page > 0 /\ input.pageSize > 0 /\ input.pageSize <= MaxPageSize

\* .limit(limit).offset(offset) of the store.
LimitOffset(rows, limit, offset) == SubSeq(rows, offset + 1, Min(Len(rows), offset + limit))

listMyFortuneSessions(caller, raw) ==
  LET input == listSessionsInputParse(raw) IN
  IF ~listSessionsInputValid(input) THEN Fail("VALIDATION", 0)
  ELSE IF ~requireUser(caller) THEN Fail("UNAUTHORIZED", 0)
  ELSE LET page == Max(1, input.page)
           pageSize == Min(MaxPageSize, Max(1, input.pageSize))
           offset == (page - 1) * pageSize
           items == LimitOffset(dbSelectWhere(sessions, eq("userId", caller)), pageSize, offset)
       IN Ok([items |-> items, total |-> Len(items), page |-> page, pageSize |-> pageSize],
             templates, sessions, draws, 1, 0)

(* --------------------- getFortuneSessionWithDraws --------------------- *)

SessionIdInputs == SessionIds \cup {"zz", ""}

GetSessionInputs == {"sessionId" :> x : x \in SessionIdInputs}

\* Empty when the caller owns the session, else the code of the failure.
maySeeSession(session, caller) ==
  IF session.userId # caller THEN "FORBIDDEN" ELSE ""

getFortuneSessionWithDraws(caller, input) ==
  IF input.sessionId = "" THEN Fail("VALIDATION", 0)
  ELSE IF ~requireUser(caller) THEN Fail("UNAUTHORIZED", 0)
  ELSE LET session == First(dbSelectWhere(sessions, eq("id", input.sessionId))) IN
       IF session = Absent THEN Fail("NOT_FOUND", 1)
       ELSE IF maySeeSession(session, caller) # ""
       THEN Fail(maySeeSession(session, caller), 1)
       ELSE Ok([session |-> session,
                draws |-> dbSelectWhere(draws, eq("sessionId", input.sessionId))],
               templates, sessions, draws, 2, 0)

(* --------------------------- addFortuneDraw --------------------------- *)

\* SQL NULL in the number column positionIndex.
NoNumber == -1

\* The fields of a draw besides its session and template.
DrawDetails == {<<>>, [positionIndex |-> 0], [positionIndex |-> 1, interpretedText |-> "a"]}

AddDrawInputs ==
  {i @@ a @@ b :
     i \in {"sessionId" :> x : x \in SessionIdInputs},
     a \in Opt("fortuneTemplateId", TemplateIdInputs),
     b \in DrawDetails}

addDrawInputValid(input) ==
  /\ input.sessionId # ""
  /\ (Has(input, "positionIndex") => input.positionIndex > 0)

\* Variant: the ownership check is missing.
mayExtendSessionMutant(session, caller) == ""
mayExtendSession(session, caller) ==
  IF session.userId # caller THEN "FORBIDDEN" ELSE ""

\* Empty when the caller may draw the template, else the code of the failure.
mayUseTemplate(template, caller) ==
  IF template.isSystem = FALSE /\ template.userId # caller THEN "FORBIDDEN"
  ELSE IF ~template.isActive THEN "BAD_REQUEST"
  ELSE ""

newDraw(input, now, uuid) ==
  [id |-> uuid, sessionId |-> input.sessionId,
   fortuneTemplateId |-> Get(input, "fortuneTemplateId"),
   positionIndex |-> IF Has(input, "positionIndex") THEN input.positionIndex ELSE NoNumber,
   interpretedText |-> Get(input, "interpretedText"), createdAt |-> now]

\* The template checks of the handler: empty, or the code of the failure.
checkDrawTemplate(template, caller) ==
  IF template = Absent THEN "NOT_FOUND" ELSE mayUseTemplate(template, caller)

addFortuneDraw(caller, input, now, uuid) ==
  IF ~addDrawInputValid(input) THEN Fail("VALIDATION", 0)
  ELSE IF ~requireUser(caller) THEN Fail("UNAUTHORIZED", 0)
  ELSE LET session == First(dbSelectWhere(sessions, eq("id", input.sessionId))) IN
       IF session = Absent THEN Fail("NOT_FOUND", 1)
       ELSE IF mayExtendSession(session, caller) # ""
       THEN Fail(mayExtendSession(session, caller), 1)
       ELSE LET checked == Truthy(input, "fortuneTemplateId")
                template == First(dbSelectWhere(templates, eq("id", input.fortuneTemplateId)))
                reads == IF checked THEN 2 ELSE 1
            IN IF checked /\ checkDrawTemplate(template, caller) # ""
               THEN Fail(checkDrawTemplate(template, caller), reads)
               ELSE LET draw == newDraw(input, now, uuid)
                    IN Ok([draw |-> draw], templates, sessions, dbInsert(draws, draw),
                          reads, 1)

(* ------------------------------ actions ------------------------------- *)

\* No request in flight between two store calls.
Idle == [pc |-> "idle", op |-> "", caller |-> NULL, input |-> <<>>]

Init ==
  /\ templates = SeedTemplates
  /\ sessions = <<>>
  /\ draws = <<>>
  /\ clock = 0
  /\ last = [op |-> "init", code |-> "OK"]
  /\ addLog = {}
  /\ readLog = {}
  /\ pending = [draw |-> Idle, edit |-> Idle]

\* The store and the response after one request. Logical time advances with
\* every write, and a behaviour holds at most maxWrites of them.
Apply(maxWrites, op, r) ==
  /\ r.writes > 0 => clock < maxWrites
  /\ templates' = r.templates
  /\ sessions' = r.sessions
  /\ draws' = r.draws
  /\ clock' = clock + r.writes
  /\ last' = [op |-> op, code |-> r.code]
  /\ UNCHANGED pending

ListFortuneTemplatesOf(maxWrites, inputs) ==
  \E caller \in Callers, input \in inputs :
    /\ Apply(maxWrites, "listFortuneTemplates", listFortuneTemplates(caller, input))
    /\ UNCHANGED <<addLog, readLog>>

CreateFortuneTemplateOf(maxWrites, inputs) ==
  \E caller \in Callers, input \in inputs :
    /\ Apply(maxWrites, "createFortuneTemplate",
             createFortuneTemplate(caller, input, clock, TemplateUuids[Len(UserTemplates) + 1]))
    /\ UNCHANGED <<addLog, readLog>>

UpdateFortuneTemplateOf(maxWrites, patches) ==
  \E caller \in Callers, input \in UpdateInputsOf(patches) :
    /\ Apply(maxWrites, "updateFortuneTemplate", updateFortuneTemplate(caller, input, clock))
    /\ UNCHANGED <<addLog, readLog>>

ArchiveFortuneTemplateIn(maxWrites) ==
  \E caller \in Callers, input \in ArchiveTemplateInputs :
    /\ Apply(maxWrites, "archiveFortuneTemplate", archiveFortuneTemplate(caller, input, clock))
    /\ UNCHANGED <<addLog, readLog>>

CreateFortuneSessionOf(maxWrites, inputs) ==
  \E caller \in Callers, input \in inputs :
    /\ Apply(maxWrites, "createFortuneSession",
             createFortuneSession(caller, input, clock, SessionUuids[Len(sessions) + 1]))
    /\ UNCHANGED <<addLog, readLog>>

ListMyFortuneSessions ==
  \E caller \in Callers, input \in ListSessionsInputs :
    /\ Apply(MaxWrites, "listMyFortuneSessions", listMyFortuneSessions(caller, input))
    /\ UNCHANGED <<addLog, readLog>>

GetFortuneSessionWithDraws ==
  \E caller \in Callers, input \in GetSessionInputs :
    LET r == getFortuneSessionWithDraws(caller, input)
    IN /\ Apply(MaxWrites, "getFortuneSessionWithDraws", r)
       /\ readLog' = IF r.code = "OK"
                     THEN readLog \cup {<<input.sessionId, caller>>}
                     ELSE readLog
       /\ UNCHANGED addLog

AddFortuneDraw ==
  \E caller \in Callers, input \in AddDrawInputs :
    LET r == addFortuneDraw(caller, input, clock, DrawUuids[Len(draws) + 1])
    IN /\ Apply(MaxWrites, "addFortuneDraw", r)
       /\ addLog' = IF r.code = "OK"
                    THEN addLog \cup {<<r.data.draw.id, caller>>}
                    ELSE addLog
       /\ UNCHANGED readLog

\* Every handler, the template handlers on their core inputs.
Next ==
  \/ ListFortuneTemplatesOf(MaxWrites, CoreListInputs)
  \/ CreateFortuneTemplateOf(MaxWrites, CoreCreateTemplateInputs)
  \/ UpdateFortuneTemplateOf(MaxWrites, CoreTemplatePatches)
  \/ ArchiveFortuneTemplateIn(MaxWrites)
  \/ CreateFortuneSessionOf(MaxWrites, CoreCreateSessionInputs)
  \/ ListMyFortuneSessions
  \/ GetFortuneSessionWithDraws
  \/ AddFortuneDraw

Spec == Init /\ [][Next]_vars

\* The template handlers alone, on their full input sets.
NextTemplates ==
  \/ ListFortuneTemplatesOf(MaxTemplateWrites, ListInputs)
  \/ CreateFortuneTemplateOf(MaxTemplateWrites, CreateTemplateInputs)
  \/ UpdateFortuneTemplateOf(MaxTemplateWrites, TemplatePatches)
  \/ ArchiveFortuneTemplateIn(MaxTemplateWrites)

SpecTemplates == Init /\ [][NextTemplates]_vars

(* ------------------------------- claims ------------------------------- *)

TemplateById(T, id) == First(dbSelectWhere(T, eq("id", id)))
SessionById(id) == First(dbSelectWhere(sessions, eq("id", id)))
OtherRowsKept(T, id) ==
  /\ Len(T) = Len(templates)
  /\ \A i \in DOMAIN templates : templates[i].id # id => T[i] = templates[i]

\* C1: update and archive change a stored template only for the owner of a
\* non-system template; for every other authenticated caller they answer
\* FORBIDDEN and leave the table as it was, system templates included.
C1_OwnerOnlyEdits ==
  \A c \in Users : \A t \in Range(templates) :
    LET allowed == ~t.isSystem /\ t.userId = c
        a == archiveFortuneTemplate(c, [id |-> t.id], clock)
    IN /\ IF allowed THEN OtherRowsKept(a.templates, t.id)
          ELSE a.code = "FORBIDDEN" /\ a.templates = templates
       /\ \A patch \in TemplatePatches :
            LET input == ("id" :> t.id) @@ patch
                u == updateFortuneTemplate(c, input, clock)
            IN updateTemplateInputValid(input) =>
                 IF allowed THEN OtherRowsKept(u.templates, t.id)
                 ELSE u.code = "FORBIDDEN" /\ u.templates = templates

\* A non-owner's update was refused while an owner's edit of a user template stands.
C1_Witness ==
  /\ last = [op |-> "updateFortuneTemplate", code |-> "FORBIDDEN"]
  /\ \E t \in Range(templates) : ~t.isSystem /\ t.updatedAt > t.createdAt

\* C5: with includeSystem and includeMine set and no category or tone, an
\* authenticated caller gets exactly the system templates and the caller's own,
\* the inactive ones only under includeInactive, each once, and total counts them.
C5_ListUnion ==
  \A c \in Users : \A raw \in ListFlagInputs :
    LET input == listInputParse(raw)
        items == listFortuneTemplates(c, raw).data.items
        expected == {t \in Range(templates) :
                       /\ t.isSystem \/ t.userId = c
                       /\ t.isActive \/ input.includeInactive}
    IN (input.includeSystem /\ input.includeMine) =>
         /\ Range(items) = expected
         /\ Len(items) = Cardinality(expected)
         /\ listFortuneTemplates(c, raw).data.total = Len(items)

\* A listing ran over system templates and templates of both users, one inactive.
C5_Witness ==
  /\ last = [op |-> "listFortuneTemplates", code |-> "OK"]
  /\ \E t1, t2 \in Range(templates) :
       /\ t1.userId = "u1" /\ t2.userId = "u2"
       /\ ~t1.isActive

\* C6: a category (a tone) given in the input, whatever string it is, restricts
\* the listing to the templates of that category (tone).
C6_FilterApplied ==
  \A c \in Callers : \A input \in ListInputs :
    LET items == listFortuneTemplates(c, input).data.items
    IN /\ Has(input, "category") => \A t \in Range(items) : t.category = input.category
       /\ Has(input, "tone") => \A t \in Range(items) : t.tone = input.tone

\* C7: a successful update sets exactly the provided fields and updatedAt of the
\* one template and keeps every other field and every other row.
C7_UpdateFrame ==
  \A c \in Users : \A t \in Range(templates) : \A patch \in TemplatePatches :
    LET input == ("id" :> t.id) @@ patch
        r == updateFortuneTemplate(c, input, clock)
        new == TemplateById(r.templates, t.id)
    IN r.code = "OK" =>
         /\ \A f \in UpdateFields : new[f] = IF Has(patch, f) THEN patch[f] ELSE t[f]
         /\ new.updatedAt = clock
         /\ new.id = t.id /\ new.userId = t.userId
         /\ new.isSystem = t.isSystem /\ new.createdAt = t.createdAt
         /\ DOMAIN new = DOMAIN t
         /\ OtherRowsKept(r.templates, t.id)
         /\ r.sessions = sessions /\ r.draws = draws
         /\ r.data.template = new

\* A template carries the values of two single-field updates and, in its other
\* fields, the values it was created with.
C7_Witness ==
  /\ last = [op |-> "updateFortuneTemplate", code |-> "OK"]
  /\ \E t \in Range(templates) :
       /\ ~t.isSystem /\ t.title = "" /\ t.body = "b"
       /\ t.category = "" /\ t.tone = NULL /\ t.isActive

\* C8: another user's update and archive of A's template are refused and change
\* nothing, A's archive succeeds and clears isActive, and no listing with
\* includeInactive=false, by any caller under any flags, returns an inactive template.
C8_ArchiveThenHidden ==
  /\ \A t \in Range(templates) :
       (~t.isSystem /\ t.userId \in Users) =>
         /\ \A b \in Users \ {t.userId} :
              /\ archiveFortuneTemplate(b, [id |-> t.id], clock).code = "FORBIDDEN"
              /\ archiveFortuneTemplate(b, [id |-> t.id], clock).templates = templates
              /\ \A patch \in TemplatePatches :
                   LET input == ("id" :> t.id) @@ patch
                       u == updateFortuneTemplate(b, input, clock)
                   IN updateTemplateInputValid(input) =>
                        u.code = "FORBIDDEN" /\ u.templates = templates
         /\ LET a == archiveFortuneTemplate(t.userId, [id |-> t.id], clock)
            IN a.code = "OK" /\ ~TemplateById(a.templates, t.id).isActive
  /\ \A c \in Callers : \A raw \in ListInputs :
       ~listInputParse(raw).includeInactive =>
         \A item \in Range(listFortuneTemplates(c, raw).data.items) :
           \A t \in Range(templates) : t.id = item.id => t.isActive

\* A listing ran after the owner archived a template.
C8_Witness ==
  /\ last = [op |-> "listFortuneTemplates", code |-> "OK"]
  /\ \E t \in Range(templates) : ~t.isSystem /\ ~t.isActive /\ t.updatedAt > t.createdAt

\* Inputs of addFortuneDraw on session sid that pass the input schema.
ValidDrawInputsOn(sid) == {input \in AddDrawInputs : input.sessionId = sid /\ addDrawInputValid(input)}

C3_TemplateFailures ==
  \A s \in Range(sessions) : \A input \in ValidDrawInputsOn(s.id) :
    LET r == addFortuneDraw(s.userId, input, clock, DrawUuids[Len(draws) + 1])
        template == TemplateById(templates, input.fortuneTemplateId)
        expected ==
          IF template = Absent THEN "NOT_FOUND"
          ELSE IF ~template.isSystem /\ template.userId \in Users \ {s.userId} THEN "FORBIDDEN"
          ELSE IF ~template.isActive THEN "BAD_REQUEST"
          ELSE "OK"
    IN Has(input, "fortuneTemplateId") =>
         /\ r.code = expected
         /\ expected # "OK" => r.draws = draws

\* C4: a caller who does not own a session can neither read it nor add a draw
\* to it; every stored draw was added by its session's owner and every
\* successful read of a session was its owner's.
C4_OwnerOnlySession ==
  /\ \A s \in Range(sessions) : \A c \in Users \ {s.userId} :
       /\ LET g == getFortuneSessionWithDraws(c, [sessionId |-> s.id])
          IN g.code = "FORBIDDEN" /\ g.data = <<>>
       /\ \A input \in ValidDrawInputsOn(s.id) :
            LET r == addFortuneDraw(c, input, clock, DrawUuids[Len(draws) + 1])
            IN r.code = "FORBIDDEN" /\ r.draws = draws
  /\ \A d \in Range(draws) :
       /\ SessionById(d.sessionId) # Absent
       /\ \A e \in addLog : e[1] = d.id => e[2] = SessionById(d.sessionId).userId
       /\ \E e \in addLog : e[1] = d.id
  /\ \A e \in readLog : e[2] = SessionById(e[1]).userId

\* The owner added a draw and read the session, and another caller was refused.
C4_Witness ==
  /\ last = [op |-> "getFortuneSessionWithDraws", code |-> "FORBIDDEN"]
  /\ Len(draws) > 0
  /\ readLog # {}

\* The responses every handler can give in the current state.
Responses ==
  UNION {
    {listFortuneTemplates(c, input) : input \in CoreListInputs}
    \cup {createFortuneTemplate(c, input, clock, TemplateUuids[Len(UserTemplates) + 1]) :
            input \in CoreCreateTemplateInputs}
    \cup {updateFortuneTemplate(c, input, clock) : input \in UpdateInputsOf(CoreTemplatePatches)}
    \cup {archiveFortuneTemplate(c, input, clock) : input \in ArchiveTemplateInputs}
    \cup {createFortuneSession(c, input, clock, SessionUuids[Len(sessions) + 1]) :
            input \in CoreCreateSessionInputs}
    \cup {listMyFortuneSessions(c, input) : input \in ListSessionsInputs}
    \cup {getFortuneSessionWithDraws(c, input) : input \in GetSessionInputs}
    \cup {addFortuneDraw(c, input, clock, DrawUuids[Len(draws) + 1]) : input \in AddDrawInputs}
    : c \in Callers}

\* C9: a request that fails leaves the three tables as they were, no request
\* makes more than one mutating store call, a validation failure comes before
\* any store access, and an update that sets no field fails validation.
C9_FailuresChangeNothing ==
  /\ \A r \in Responses :
       /\ r.writes <= 1
       /\ r.code # "OK" =>
            /\ r.writes = 0
            /\ r.templates = templates /\ r.sessions = sessions /\ r.draws = draws
       /\ r.code = "VALIDATION" => r.reads = 0
       /\ r.writes = 0 =>
            r.templates = templates /\ r.sessions = sessions /\ r.draws = draws
  /\ \A c \in Callers : \A id \in TemplateIdInputs :
       LET r == updateFortuneTemplate(c, [id |-> id], clock)
       IN r.code = "VALIDATION" /\ r.reads = 0 /\ r.writes = 0

\* An update without fields was rejected with rows of every table in the store.
C9_Witness ==
  /\ last = [op |-> "updateFortuneTemplate", code |-> "VALIDATION"]
  /\ Len(UserTemplates) > 0
  /\ Len(sessions) > 0

(* --------------------- requests between store calls -------------------- *)

\* Each await of addFortuneDraw, archiveFortuneTemplate and
\* updateFortuneTemplate is one step; other requests run between the steps.

ConcDrawInputs ==
  {[sessionId |-> x, fortuneTemplateId |-> y] :
     x \in SessionIds, y \in {t.id : t \in Range(UserTemplates)}}

ConcEditInputs ==
  {[op |-> "archiveFortuneTemplate", input |-> [id |-> x]] :
     x \in {t.id : t \in Range(UserTemplates)}}
  \cup {[op |-> "updateFortuneTemplate", input |-> [id |-> x, isActive |-> FALSE]] :
          x \in {t.id : t \in Range(UserTemplates)}}

Respond(slot, op, code) ==
  /\ last' = [op |-> op, code |-> code]
  /\ pending' = [pending EXCEPT ![slot] = Idle]

Goto(slot, pc) ==
  /\ pending' = [pending EXCEPT ![slot].pc = pc]
  /\ UNCHANGED last

DrawBegin ==
  /\ pending.draw.pc = "idle"
  /\ \E caller \in Users, input \in ConcDrawInputs :
       /\ addDrawInputValid(input) /\ requireUser(caller)
       /\ pending' = [pending EXCEPT !.draw = [pc |-> "session", op |-> "addFortuneDraw",
                                               caller |-> caller, input |-> input]]
  /\ UNCHANGED <<templates, sessions, draws, clock, last, addLog, readLog>>

DrawLoadSession ==
  /\ pending.draw.pc = "session"
  /\ LET input == pending.draw.input
         session == First(dbSelectWhere(sessions, eq("id", input.sessionId)))
     IN IF session = Absent THEN Respond("draw", "addFortuneDraw", "NOT_FOUND")
        ELSE IF mayExtendSession(session, pending.draw.caller) # ""
        THEN Respond("draw", "addFortuneDraw", mayExtendSession(session, pending.draw.caller))
        ELSE Goto("draw", IF Truthy(input, "fortuneTemplateId") THEN "template" ELSE "insert")
  /\ UNCHANGED <<templates, sessions, draws, clock, addLog, readLog>>

DrawLoadTemplate ==
  /\ pending.draw.pc = "template"
  /\ LET template == First(dbSelectWhere(templates,
                                         eq("id", pending.draw.input.fortuneTemplateId)))
         code == checkDrawTemplate(template, pending.draw.caller)
     IN IF code # "" THEN Respond("draw", "addFortuneDraw", code)
        ELSE Goto("draw", "insert")
  /\ UNCHANGED <<templates, sessions, draws, clock, addLog, readLog>>

DrawInsert ==
  /\ pending.draw.pc = "insert"
  /\ clock < MaxConcWrites
  /\ LET draw == newDraw(pending.draw.input, clock, DrawUuids[Len(draws) + 1])
     IN /\ draws' = dbInsert(draws, draw)
        /\ addLog' = addLog \cup {<<draw.id, pending.draw.caller>>}
  /\ clock' = clock + 1
  /\ Respond("draw", "addFortuneDraw", "OK")
  /\ UNCHANGED <<templates, sessions, readLog>>

EditBegin ==
  /\ pending.edit.pc = "idle"
  /\ \E caller \in Users, e \in ConcEditInputs :
       /\ requireUser(caller)
       /\ e.op = "updateFortuneTemplate" => updateTemplateInputValid(e.input)
       /\ pending' = [pending EXCEPT !.edit = [pc |-> "load", op |-> e.op,
                                               caller |-> caller, input |-> e.input]]
  /\ UNCHANGED <<templates, sessions, draws, clock, last, addLog, readLog>>

EditLoad ==
  /\ pending.edit.pc = "load"
  /\ LET existing == First(dbSelectWhere(templates, eq("id", pending.edit.input.id)))
         code == IF existing = Absent THEN "NOT_FOUND"
                 ELSE IF pending.edit.op = "archiveFortuneTemplate"
                 THEN mayArchiveTemplate(existing, pending.edit.caller)
                 ELSE mayUpdateTemplate(existing, pending.edit.caller)
     IN IF code # "" THEN Respond("edit", pending.edit.op, code)
        ELSE Goto("edit", "write")
  /\ UNCHANGED <<templates, sessions, draws, clock, addLog, readLog>>

EditWrite ==
  /\ pending.edit.pc = "write"
  /\ clock < MaxConcWrites
  /\ templates' = dbUpdate(templates,
                           IF pending.edit.op = "archiveFortuneTemplate"
                           THEN archiveUpdates(clock)
                           ELSE templateUpdates(pending.edit.input, clock),
                           eq("id", pending.edit.input.id))
  /\ clock' = clock + 1
  /\ IF pending.edit.op = "archiveFortuneTemplate"
     THEN Respond("edit", pending.edit.op, "OK")
     ELSE Goto("edit", "reread")
  /\ UNCHANGED <<sessions, draws, addLog, readLog>>

EditReread ==
  /\ pending.edit.pc = "reread"
  /\ Respond("edit", pending.edit.op, "OK")
  /\ UNCHANGED <<templates, sessions, draws, clock, addLog, readLog>>

NextConc ==
  \/ CreateFortuneTemplateOf(MaxConcWrites, CoreCreateTemplateInputs)
  \/ CreateFortuneSessionOf(MaxConcWrites, CoreCreateSessionInputs)
  \/ DrawBegin
  \/ DrawLoadSession
  \/ DrawLoadTemplate
  \/ DrawInsert
  \/ EditBegin
  \/ EditLoad
  \/ EditWrite
  \/ EditReread

SpecConc == Init /\ [][NextConc]_vars

\* C10: no draw is inserted whose template is inactive at the moment of the
\* insert, however the store calls of the requests interleave.
C10_NoInactiveDraw ==
  [][Len(draws') > Len(draws) =>
       \A t \in Range(templates) :
         t.id = draws'[Len(draws')].fortuneTemplateId => t.isActive]_vars

====
